---- MODULE Spec2Model ----
(***************************************************************************)
(* SwiftBook server: the request pipeline of src/index.js (ensureDb,       *)
(* verifyFBToken, the three role gates and the route handlers) over the    *)
(* users, books, orders, reviews and payments collections, the earlier     *)
(* revision of its start-up and gates (src/index.js:731-1178), the order   *)
(* routes of src/unnamed/part_000 and the first revision of POST /users    *)
(* (src/unnamed/part_001).                                                 *)
(*                                                                         *)
(* Every `await` of the source is an interleaving point: one action runs   *)
(* the awaited operation and the code that follows it up to the next       *)
(* await or to the response.                                               *)
(***************************************************************************)
EXTENDS Naturals, Sequences, FiniteSets

VARIABLES
    server,         \* position of the start-up code (index.js:697-702)
    attempt,        \* loop variable of connectDBWithRetry
    dbConnected,    \* index.js:68
    collections,    \* TRUE once usersCollection, booksCollection, ... are assigned
    users,          \* documents of the users collection, in insertion order
    books,          \* number of documents of the books collection
    orders,         \* documents of the orders collection, in insertion order
    nextId,         \* next _id the store hands out
    reqs,           \* the requests in flight, one per slot
    arrivals,       \* requests received so far
    reviews,        \* documents of the reviews collection, in insertion order
    payments        \* documents of the payments collection, in insertion order

vars == <<server, attempt, dbConnected, collections, users, books, orders, nextId, reqs,
          arrivals, reviews, payments>>

(* ------------------------------ bounds -------------------------------- *)
MaxReq == 2         \* requests in flight at the same time
MaxIds == 3         \* _ids the users collection hands out (1 is the seeded admin)
MaxBooks == 1       \* documents POST /books may insert
MaxOrders == 1      \* documents POST /orders may insert
MaxArrivals == 2    \* requests the server receives in a run
MaxReviews == 2     \* documents POST /reviews may insert
MaxPayments == 2    \* documents PATCH /payment-success may insert

Slots == 1..MaxReq

(* ------------------------- program constants --------------------------- *)
retries == 5

Emails == {"a", "b"}
BodyRoles == {"user", "librarian", "admin", "moderator"}
BookIds == {"bk1"}
ReviewBookIds == {"bk1", "bk2"}

\* Authorization headers, as the words split(" ") yields: absent, a bare token,
\* and Bearer followed by a token.
Headers == {<<>>, <<"tokA">>, <<"Bearer", "tokA">>, <<"Bearer", "tokB">>, <<"Bearer", "bad">>}

NoDoc == [id |-> 0, email |-> "", role |-> ""]
NoBody == [email |-> "", role |-> "", bookId |-> "", session_id |-> ""]

\* The routes of index.js that the model covers, each with its middleware chain.
Routes == {"POST /users", "GET /users", "PATCH /users/role/:id", "DELETE /users/:id",
           "POST /books", "GET /orders", "POST /orders"}

usesToken(route) == route # "POST /users"

\* The routes whose handler compares the email of the path or query with the
\* email of the token.
SelfRoutes == {"GET /orders/:email", "GET /wishlist/:email", "GET /payments",
               "GET /user-stats/:email"}

\* The routes of index.js over books, orders, wishlist, reviews and payments that
\* the model covers.
DataRoutes == SelfRoutes \cup {"GET /books"}

\* The review routes of index.js behind verifyFBToken.
ReviewRoutes == {"POST /reviews", "GET /reviews/can/:bookId/:email"}

\* gateOf with PATCH /users/role/:id registered without verifyAdmin
gateOfPatchOpen(route) ==
    CASE route \in {"GET /users", "DELETE /users/:id"} -> "verifyAdmin"
      [] route = "GET /orders" -> "verifyLibrarian"
      [] route \in {"POST /books", "GET /books"} -> "verifyAdminOrLibrarian"
      [] OTHER -> "none"

gateOf(route) ==
    CASE route \in {"GET /users", "PATCH /users/role/:id", "DELETE /users/:id"} -> "verifyAdmin"
      [] route = "GET /orders" -> "verifyLibrarian"
      [] route \in {"POST /books", "GET /books"} -> "verifyAdminOrLibrarian"
      [] OTHER -> "none"

(* --------------------------- the document store ------------------------ *)
Matches(coll, email) == {i \in 1..Len(coll) : coll[i].email = email}

Min(S) == CHOOSE x \in S : \A y \in S : x <= y

\* collection.findOne({ email }): the first matching document, or null.
findOne(coll, email) ==
    IF Matches(coll, email) = {} THEN NoDoc ELSE coll[Min(Matches(coll, email))]

\* collection.insertOne(doc): appended under a fresh _id.
insertOne(coll, doc, id) == Append(coll, [id |-> id, email |-> doc.email, role |-> doc.role])

\* collection.updateOne({ _id }, { $set: { role } })
updateOne(coll, id, role) ==
    [i \in 1..Len(coll) |-> IF coll[i].id = id THEN [coll[i] EXCEPT !.role = role] ELSE coll[i]]

\* collection.deleteOne({ _id })
deleteOne(coll, id) == SelectSeq(coll, LAMBDA d : d.id # id)

(* ------------------------- the identity provider ----------------------- *)
\* authHeader.split(" ")[1]
tokenOf(hdr) == IF Len(hdr) >= 2 THEN hdr[2] ELSE "undefined"

\* admin.auth().verifyIdToken(token): the email of the token, "" when it throws.
\* The provider is taken by its contract: a token that verifies carries an email.
verifyIdToken(token) ==
    CASE token = "tokA" -> "a"
      [] token = "tokB" -> "b"
      [] OTHER -> ""

(* ------------------------------ requests ------------------------------- *)
Idle == [pc |-> "idle", route |-> "", hdr |-> <<>>, id |-> 0, body |-> NoBody, order |-> FALSE,
         decoded_email |-> "unset", gate |-> "none", user |-> NoDoc,
         handlerRan |-> FALSE, lookups |-> 0, storeOps |-> 0, status |-> 0, msg |-> "",
         sent |-> 0]

NewReq(route, hdr, body) ==
    [Idle EXCEPT !.pc = "new", !.route = route, !.hdr = hdr, !.body = body]

\* res.status(s).send({ message: m }) followed by return
Send(q, s, m) == [q EXCEPT !.pc = "done", !.status = s, !.msg = m, !.sent = @ + 1]

\* The requests a client can send: the route, the Authorization header and, for
\* the route without middleware, the body its handler reads at once. A handler
\* behind an await reads params and body when it resumes, and they are drawn there.
Inputs ==
    {NewReq("POST /users", <<>>, [NoBody EXCEPT !.email = e, !.role = ro]) :
         e \in Emails, ro \in BodyRoles}
    \cup {NewReq(ro, h, NoBody) : ro \in Routes \ {"POST /users"}, h \in Headers}

\* A self-access handler that goes on to the store for any requested email
selfAccessOpen(q) ==
    [q EXCEPT !.handlerRan = TRUE,
              !.pc = CASE q.route = "GET /orders/:email" -> "orders.find.email"
                       [] q.route = "GET /wishlist/:email" -> "wishlist.find"
                       [] q.route = "GET /payments" -> "payments.find"
                       [] OTHER -> "countDocuments"]

\* The first statements of a self-access handler: 403 unless the requested email
\* (req.params.email, req.query.email) is the email of the token.
selfAccess(q) ==
    IF q.body.email # q.decoded_email
    THEN Send([q EXCEPT !.handlerRan = TRUE], 403, "Forbidden")
    ELSE [q EXCEPT !.handlerRan = TRUE,
                   !.pc = CASE q.route = "GET /orders/:email" -> "orders.find.email"
                            [] q.route = "GET /wishlist/:email" -> "wishlist.find"
                            [] q.route = "GET /payments" -> "payments.find"
                            [] OTHER -> "countDocuments"]

\* The first statements of a route's handler, up to its first await.
handlerEntry(q) ==
    CASE q.route = "POST /users" ->
             [q EXCEPT !.handlerRan = TRUE, !.body.role = "user", !.pc = "users.findOne"]
      [] q.route = "GET /users" -> [q EXCEPT !.handlerRan = TRUE, !.pc = "users.find"]
      [] q.route = "PATCH /users/role/:id" ->
             [q EXCEPT !.handlerRan = TRUE, !.pc = "users.updateOne"]
      [] q.route = "DELETE /users/:id" ->
             [q EXCEPT !.handlerRan = TRUE, !.pc = "users.deleteOne"]
      [] q.route = "POST /books" -> [q EXCEPT !.handlerRan = TRUE, !.pc = "books.insertOne"]
      [] q.route = "GET /orders" -> [q EXCEPT !.handlerRan = TRUE, !.pc = "orders.find"]
      [] q.route = "GET /books" ->
             [q EXCEPT !.handlerRan = TRUE, !.pc = "books.users.findOne"]
      [] q.route \in SelfRoutes -> selfAccess(q)
      [] q.route = "POST /reviews" -> [q EXCEPT !.handlerRan = TRUE, !.pc = "orders.findOne"]
      [] q.route = "DELETE /orders/:id" ->
             [q EXCEPT !.handlerRan = TRUE, !.pc = "orders.deleteOne"]
      [] q.route = "GET /reviews/can/:bookId/:email" ->
             [q EXCEPT !.handlerRan = TRUE, !.pc = "can.orders.findOne"]
      [] q.route = "PATCH /payment-success" ->
             IF q.body.session_id = ""
             THEN Send([q EXCEPT !.handlerRan = TRUE], 400, "Missing session_id")
             ELSE [q EXCEPT !.handlerRan = TRUE, !.pc = "sessions.retrieve"]
      [] OTHER -> [q EXCEPT !.handlerRan = TRUE, !.pc = "orders.insertOne"]

\* next() of the last middleware before the gate or the handler
afterToken(q) == IF gateOf(q.route) = "none" THEN handlerEntry(q) ELSE [q EXCEPT !.pc = "gate"]

\* verifyFBToken calling next() for a request without the header
verifyFBTokenOpen(q) ==
    IF q.hdr = <<>> THEN afterToken(q)
    ELSE [q EXCEPT !.pc = "verifyIdToken"]

\* verifyFBToken up to its await
verifyFBToken(q) ==
    IF q.hdr = <<>> THEN Send(q, 401, "Unauthorized")
    ELSE [q EXCEPT !.pc = "verifyIdToken"]

\* verifyFBToken calling next() from its catch block
verifyFBTokenResumeOpen(q) ==
    IF verifyIdToken(tokenOf(q.hdr)) # ""
    THEN afterToken([q EXCEPT !.decoded_email = verifyIdToken(tokenOf(q.hdr))])
    ELSE afterToken(q)

\* verifyFBToken from its await on: the provider's answer, then next() or 401
verifyFBTokenResume(q) ==
    IF verifyIdToken(tokenOf(q.hdr)) # ""
    THEN afterToken([q EXCEPT !.decoded_email = verifyIdToken(tokenOf(q.hdr))])
    ELSE Send(q, 401, "Invalid Token")

\* ensureDb, then the route's chain up to its first await
ensureDb(q, connected, handles) ==
    IF ~connected \/ ~handles
    THEN Send(q, 503, "Service temporarily unavailable. DB not ready.")
    ELSE IF usesToken(q.route) THEN verifyFBToken(q) ELSE handlerEntry(q)

\* verifyAdmin with !user || ... written as user && ...
verifyAdminRejectsNoRecordPasses(user) == user # NoDoc /\ user.role # "admin"

\* verifyLibrarian accepting the librarian role alone
verifyLibrarianRejectsAdmin(user) == user = NoDoc \/ user.role # "librarian"

\* The conditions under which each gate answers 403, for the looked-up user.
verifyAdminRejects(user) == user = NoDoc \/ user.role # "admin"

verifyLibrarianRejects(user) ==
    user = NoDoc \/ (user.role # "librarian" /\ user.role # "admin")

verifyAdminOrLibrarianRejects(user) ==
    user = NoDoc \/ (user.role # "admin" /\ user.role # "librarian")

gateRejects(gate, user) ==
    CASE gate = "verifyAdmin" -> verifyAdminRejects(user)
      [] gate = "verifyLibrarian" -> verifyLibrarianRejects(user)
      [] OTHER -> verifyAdminOrLibrarianRejects(user)

gateMessage(gate) == IF gate = "verifyAdminOrLibrarian" THEN "Admin/Librarian only" ELSE "Forbidden"

\* A role gate that sends 403 without return and goes on to next()
roleGateNoReturn(q, coll) ==
    LET user == findOne(coll, q.decoded_email)
        g == [q EXCEPT !.gate = gateOf(q.route), !.user = user, !.lookups = @ + 1,
                       !.storeOps = @ + 1]
    IN IF gateRejects(gateOf(q.route), user)
       THEN handlerEntry([g EXCEPT !.status = 403, !.msg = gateMessage(gateOf(q.route)),
                                   !.sent = @ + 1])
       ELSE handlerEntry(g)

\* A role gate deciding on the users collection as it was at start-up
roleGateStale(q, coll) ==
    LET user == findOne(<<[id |-> 1, email |-> "a", role |-> "admin"]>>, q.decoded_email)
        g == [q EXCEPT !.gate = gateOf(q.route), !.user = user, !.lookups = @ + 1,
                       !.storeOps = @ + 1]
    IN IF gateRejects(gateOf(q.route), user)
       THEN Send(g, 403, gateMessage(gateOf(q.route)))
       ELSE handlerEntry(g)

\* A role gate from its findOne on: 403, or next() into the handler.
roleGate(q, coll) ==
    LET user == findOne(coll, q.decoded_email)
        g == [q EXCEPT !.gate = gateOf(q.route), !.user = user, !.lookups = @ + 1,
                       !.storeOps = @ + 1]
    IN IF gateRejects(gateOf(q.route), user)
       THEN Send(g, 403, gateMessage(gateOf(q.route)))
       ELSE handlerEntry(g)

(* ------------------------------- start-up ------------------------------ *)
Init ==
    /\ server = "connecting"
    /\ attempt = 1
    /\ dbConnected = FALSE
    /\ collections = FALSE
    /\ users = <<[id |-> 1, email |-> "a", role |-> "admin"]>>
    /\ books = 0
    /\ orders = <<>>
    /\ nextId = 2
    /\ reqs = [r \in Slots |-> Idle]
    /\ arrivals = 0
    /\ reviews = <<>>
    /\ payments = <<>>

\* connectDBWithRetry: client.connect() resolves
ConnectOk ==
    /\ server = "connecting"
    /\ dbConnected' = TRUE
    /\ collections' = TRUE
    /\ server' = "connected"
    /\ UNCHANGED <<attempt, users, books, orders, nextId, reqs, arrivals, reviews, payments>>

\* connectDBWithRetry retrying after every failure, without the else branch
ConnectFailNoExit ==
    /\ server = "connecting"
    /\ server' = "waiting"
    /\ UNCHANGED <<attempt, dbConnected, collections, users, books, orders, nextId, reqs, arrivals, reviews,
                   payments>>

\* connectDBWithRetry: client.connect() throws
ConnectFail ==
    /\ server = "connecting"
    /\ server' = IF attempt < retries THEN "waiting" ELSE "exited"
    /\ UNCHANGED <<attempt, dbConnected, collections, users, books, orders, nextId, reqs, arrivals, reviews,
                   payments>>

\* connectDBWithRetry: the delay is over, next iteration
Retry ==
    /\ server = "waiting"
    /\ attempt' = attempt + 1
    /\ server' = "connecting"
    /\ UNCHANGED <<dbConnected, collections, users, books, orders, nextId, reqs, arrivals, reviews,
                   payments>>

\* connectDBWithRetry has returned (its loop variable is gone), then app.listen
Listen ==
    /\ server = "connected"
    /\ server' = "listening"
    /\ attempt' = 0
    /\ UNCHANGED <<dbConnected, collections, users, books, orders, nextId, reqs, arrivals, reviews,
                   payments>>

(* ------------------------------ the pipeline --------------------------- *)
Receive(r) ==
    /\ server = "listening"
    /\ reqs[r].pc \in {"idle", "done"}
    /\ arrivals < MaxArrivals
    /\ arrivals' = arrivals + 1
    /\ \E q \in Inputs : reqs' = [reqs EXCEPT ![r] = ensureDb(q, dbConnected, collections)]
    /\ UNCHANGED <<server, attempt, dbConnected, collections, users, books, orders, nextId, reviews,
                   payments>>

TokenChecked(r) ==
    /\ reqs[r].pc = "verifyIdToken"
    /\ reqs' = [reqs EXCEPT ![r] = verifyFBTokenResume(@)]
    /\ UNCHANGED <<server, attempt, dbConnected, collections, users, books, orders, nextId, arrivals, reviews,
                   payments>>

Gate(r) ==
    /\ reqs[r].pc = "gate"
    /\ reqs' = [reqs EXCEPT ![r] = roleGate(@, users)]
    /\ UNCHANGED <<server, attempt, dbConnected, collections, users, books, orders, nextId, arrivals, reviews,
                   payments>>

(* ------------------------------ the handlers --------------------------- *)
\* POST /users from its findOne on: "user exists", or on to insertOne
postUsersFindOne(q, coll) ==
    LET exists == findOne(coll, q.body.email)
        g == [q EXCEPT !.storeOps = @ + 1]
    IN IF exists # NoDoc THEN Send(g, 200, "user exists")
       ELSE [g EXCEPT !.pc = "users.insertOne"]

PostUsersFindOne(r) ==
    /\ reqs[r].pc = "users.findOne"
    /\ reqs' = [reqs EXCEPT ![r] = postUsersFindOne(@, users)]
    /\ UNCHANGED <<server, attempt, dbConnected, collections, users, books, orders, nextId, arrivals, reviews,
                   payments>>

PostUsersInsertOne(r) ==
    /\ reqs[r].pc = "users.insertOne"
    /\ nextId <= MaxIds
    /\ users' = insertOne(users, reqs[r].body, nextId)
    /\ nextId' = nextId + 1
    /\ reqs' = [reqs EXCEPT ![r] = Send([@ EXCEPT !.storeOps = @ + 1], 200, "insertedId")]
    /\ UNCHANGED <<server, attempt, dbConnected, collections, books, orders, arrivals, reviews,
                   payments>>

GetUsers(r) ==
    /\ reqs[r].pc = "users.find"
    /\ reqs' = [reqs EXCEPT ![r] = Send([@ EXCEPT !.storeOps = @ + 1], 200, "users")]
    /\ UNCHANGED <<server, attempt, dbConnected, collections, users, books, orders, nextId, arrivals, reviews,
                   payments>>

\* PATCH /users/role/:id as a read-modify-write that marks a role written twice
patchUsersRoleMerged(coll, id, role) ==
    [i \in 1..Len(coll) |->
        IF coll[i].id = id
        THEN [coll[i] EXCEPT !.role = IF @ = "user" THEN role ELSE "merged"]
        ELSE coll[i]]

\* PATCH /users/role/:id: $set of the body's role on the document with that _id
patchUsersRole(coll, id, role) == updateOne(coll, id, role)

\* req.params.id and req.body.role are read here and kept in the request.
PatchUsersRole(r) ==
    /\ reqs[r].pc = "users.updateOne"
    /\ \E id \in 1..MaxIds, role \in BodyRoles :
           /\ users' = patchUsersRole(users, id, role)
           /\ reqs' = [reqs EXCEPT ![r] = Send([@ EXCEPT !.storeOps = @ + 1, !.id = id,
                                                         !.body.role = role],
                                               200, "modifiedCount")]
    /\ UNCHANGED <<server, attempt, dbConnected, collections, books, orders, nextId, arrivals, reviews,
                   payments>>

DeleteUsers(r) ==
    /\ reqs[r].pc = "users.deleteOne"
    /\ \E id \in 1..MaxIds : users' = deleteOne(users, id)
    /\ reqs' = [reqs EXCEPT ![r] = Send([@ EXCEPT !.storeOps = @ + 1], 200, "deletedCount")]
    /\ UNCHANGED <<server, attempt, dbConnected, collections, books, orders, nextId, arrivals, reviews,
                   payments>>

PostBooks(r) ==
    /\ reqs[r].pc = "books.insertOne"
    /\ books < MaxBooks
    /\ books' = books + 1
    /\ reqs' = [reqs EXCEPT ![r] = Send([@ EXCEPT !.storeOps = @ + 1], 200, "insertedId")]
    /\ UNCHANGED <<server, attempt, dbConnected, collections, users, orders, nextId, arrivals, reviews,
                   payments>>

GetOrders(r) ==
    /\ reqs[r].pc = "orders.find"
    /\ reqs' = [reqs EXCEPT ![r] = Send([@ EXCEPT !.storeOps = @ + 1], 200, "orders")]
    /\ UNCHANGED <<server, attempt, dbConnected, collections, users, books, orders, nextId, arrivals, reviews,
                   payments>>

\* POST /orders: the body with status and paymentStatus overwritten
postOrders(body) ==
    [bookId |-> body.bookId, customerEmail |-> body.email, status |-> "pending",
     paymentStatus |-> "unpaid"]

PostOrders(r) ==
    /\ reqs[r].pc = "orders.insertOne"
    /\ Len(orders) < MaxOrders
    /\ \E e \in Emails, b \in BookIds :
           orders' = Append(orders, postOrders([NoBody EXCEPT !.email = e, !.bookId = b]))
    /\ reqs' = [reqs EXCEPT ![r] = Send([@ EXCEPT !.storeOps = @ + 1], 200, "insertedId")]
    /\ UNCHANGED <<server, attempt, dbConnected, collections, users, books, nextId, arrivals, reviews,
                   payments>>

\* The awaits on the store, and the catch block that answers when one throws.
StoreAwaits == {"gate", "users.findOne", "users.insertOne", "users.find", "users.updateOne",
                "users.deleteOne", "books.insertOne", "orders.find", "orders.insertOne",
                "books.users.findOne", "books.find", "orders.find.email", "wishlist.find",
                "payments.find", "countDocuments", "orders.findOne", "reviews.findOne",
                "reviews.insertOne", "sessions.retrieve", "payments.findOne",
                "payments.insertOne", "orders.updateOne", "can.orders.findOne",
                "can.reviews.findOne"}

catchMessage(q) ==
    CASE q.pc = "gate" -> "Server error"
      [] q.route = "POST /users" -> "Failed to create user"
      [] q.route = "GET /users" -> "Failed to fetch users"
      [] q.route = "PATCH /users/role/:id" -> "Failed to update role"
      [] q.route = "DELETE /users/:id" -> "Failed to delete user"
      [] q.route = "POST /books" -> "Failed to add book"
      [] q.route = "GET /orders" -> "Failed to fetch orders"
      [] q.route = "GET /books" -> "Failed to fetch books"
      [] q.route = "GET /orders/:email" -> "Failed to fetch orders"
      [] q.route = "GET /wishlist/:email" -> "Failed to fetch wishlist"
      [] q.route = "GET /payments" -> "Failed to fetch payments"
      [] q.route = "GET /user-stats/:email" -> "Failed to load user stats"
      [] q.route = "POST /reviews" -> "Failed to add review"
      [] q.route = "PATCH /payment-success" -> "Payment failed"
      [] q.route = "GET /reviews/can/:bookId/:email" -> "Server error"
      [] OTHER -> "Failed to create order"

StoreThrows(r) ==
    /\ reqs[r].pc \in StoreAwaits
    /\ reqs' = [reqs EXCEPT ![r] = Send(@, 500, catchMessage(@))]
    /\ UNCHANGED <<server, attempt, dbConnected, collections, users, books, orders, nextId, arrivals, reviews,
                   payments>>

Next ==
    \/ ConnectOk
    \/ ConnectFail
    \/ Retry
    \/ Listen
    \/ \E r \in Slots : Receive(r)
    \/ \E r \in Slots : TokenChecked(r)
    \/ \E r \in Slots : Gate(r)
    \/ \E r \in Slots : PostUsersFindOne(r)
    \/ \E r \in Slots : PostUsersInsertOne(r)
    \/ \E r \in Slots : GetUsers(r)
    \/ \E r \in Slots : PatchUsersRole(r)
    \/ \E r \in Slots : DeleteUsers(r)
    \/ \E r \in Slots : PostBooks(r)
    \/ \E r \in Slots : GetOrders(r)
    \/ \E r \in Slots : PostOrders(r)
    \/ \E r \in Slots : StoreThrows(r)

Spec == Init /\ [][Next]_vars

\* The server with a registered user "b" beside the seeded admin "a".
InitRoles ==
    /\ server = "connecting"
    /\ attempt = 1
    /\ dbConnected = FALSE
    /\ collections = FALSE
    /\ users = <<[id |-> 1, email |-> "a", role |-> "admin"],
                 [id |-> 2, email |-> "b", role |-> "user"]>>
    /\ books = 0
    /\ orders = <<>>
    /\ nextId = 3
    /\ reqs = [r \in Slots |-> Idle]
    /\ arrivals = 0
    /\ reviews = <<>>
    /\ payments = <<>>

SpecRoles == InitRoles /\ [][Next]_vars

\* The continuations the event loop runs once the store has answered. The answer
\* of the identity provider (TokenChecked) is not among them: verifyFBToken awaits
\* verifyIdToken with no timer beside it.
StoreAnswers(r) ==
    \/ Gate(r)
    \/ PostUsersFindOne(r)
    \/ PostUsersInsertOne(r)
    \/ GetUsers(r)
    \/ PatchUsersRole(r)
    \/ DeleteUsers(r)
    \/ PostBooks(r)
    \/ GetOrders(r)
    \/ PostOrders(r)

\* The server with a store that answers every call, and an identity provider that
\* may never answer.
SpecLive == Init /\ [][Next]_vars /\ \A r \in Slots : WF_vars(StoreAnswers(r))

\* The server with a client.connect() that settles (connectTimeoutMS) and a timer
\* that fires: the steps of connectDBWithRetry are taken when they can be.
SpecStart ==
    Init /\ [][Next]_vars /\ WF_vars(ConnectOk \/ ConnectFail) /\ WF_vars(Retry)

(* ------------- books, orders, wishlist, reviews, payments -------------- *)
\* The purchase test of POST /reviews looking at the customer alone
hasPurchasedAnyBook(coll, bookId, email) ==
    \E i \in 1..Len(coll) : coll[i].customerEmail = email

\* ordersCollection.findOne({ bookId, customerEmail }) finds a document
hasPurchased(coll, bookId, email) ==
    \E i \in 1..Len(coll) : coll[i].bookId = bookId /\ coll[i].customerEmail = email

\* reviewsCollection.findOne({ bookId, userEmail }) finds a document
alreadyReviewed(coll, bookId, email) ==
    \E i \in 1..Len(coll) : coll[i].bookId = bookId /\ coll[i].userEmail = email

\* The server with a registered user "b" and an order of "a" for the book bk1.
InitData ==
    /\ server = "connecting"
    /\ attempt = 1
    /\ dbConnected = FALSE
    /\ collections = FALSE
    /\ users = <<[id |-> 1, email |-> "a", role |-> "admin"],
                 [id |-> 2, email |-> "b", role |-> "user"]>>
    /\ books = 0
    /\ orders = <<postOrders([NoBody EXCEPT !.email = "a", !.bookId = "bk1"])>>
    /\ nextId = 3
    /\ reqs = [r \in Slots |-> Idle]
    /\ arrivals = 0
    /\ reviews = <<>>
    /\ payments = <<>>

\* The requests a client can send to these routes; the email of the path or query
\* is read by the handler before any await.
InputsData ==
    {NewReq(ro, h, [NoBody EXCEPT !.email = e]) : ro \in SelfRoutes, h \in Headers, e \in Emails}
    \cup {NewReq(ro, h, NoBody) : ro \in DataRoutes \ SelfRoutes, h \in Headers}

ReceiveData(r) ==
    /\ server = "listening"
    /\ reqs[r].pc \in {"idle", "done"}
    /\ arrivals < MaxArrivals
    /\ arrivals' = arrivals + 1
    /\ \E q \in InputsData : reqs' = [reqs EXCEPT ![r] = ensureDb(q, dbConnected, collections)]
    /\ UNCHANGED <<server, attempt, dbConnected, collections, users, books, orders, nextId,
                   reviews, payments>>

\* GET /books from its own usersCollection.findOne on; user.role of a missing
\* record throws into the catch block.
getBooksFindOne(q, coll) ==
    LET user == findOne(coll, q.decoded_email)
        g == [q EXCEPT !.lookups = @ + 1, !.storeOps = @ + 1]
    IN IF user = NoDoc THEN Send(g, 500, "Failed to fetch books")
       ELSE [g EXCEPT !.pc = "books.find"]

GetBooksFindOne(r) ==
    /\ reqs[r].pc = "books.users.findOne"
    /\ reqs' = [reqs EXCEPT ![r] = getBooksFindOne(@, users)]
    /\ UNCHANGED <<server, attempt, dbConnected, collections, users, books, orders, nextId,
                   arrivals, reviews, payments>>

GetBooksFind(r) ==
    /\ reqs[r].pc = "books.find"
    /\ reqs' = [reqs EXCEPT ![r] = Send([@ EXCEPT !.storeOps = @ + 1], 200, "books")]
    /\ UNCHANGED <<server, attempt, dbConnected, collections, users, books, orders, nextId,
                   arrivals, reviews, payments>>

GetOrdersEmail(r) ==
    /\ reqs[r].pc = "orders.find.email"
    /\ reqs' = [reqs EXCEPT ![r] = Send([@ EXCEPT !.storeOps = @ + 1], 200, "orders")]
    /\ UNCHANGED <<server, attempt, dbConnected, collections, users, books, orders, nextId,
                   arrivals, reviews, payments>>

GetWishlistEmail(r) ==
    /\ reqs[r].pc = "wishlist.find"
    /\ reqs' = [reqs EXCEPT ![r] = Send([@ EXCEPT !.storeOps = @ + 1], 200, "wishlist")]
    /\ UNCHANGED <<server, attempt, dbConnected, collections, users, books, orders, nextId,
                   arrivals, reviews, payments>>

GetPayments(r) ==
    /\ reqs[r].pc = "payments.find"
    /\ reqs' = [reqs EXCEPT ![r] = Send([@ EXCEPT !.storeOps = @ + 1], 200, "payments")]
    /\ UNCHANGED <<server, attempt, dbConnected, collections, users, books, orders, nextId,
                   arrivals, reviews, payments>>

\* GET /user-stats/:email: Promise.all of four countDocuments
GetUserStats(r) ==
    /\ reqs[r].pc = "countDocuments"
    /\ reqs' = [reqs EXCEPT ![r] = Send([@ EXCEPT !.storeOps = @ + 4], 200, "stats")]
    /\ UNCHANGED <<server, attempt, dbConnected, collections, users, books, orders, nextId,
                   arrivals, reviews, payments>>

\* POST /reviews from its ordersCollection.findOne on, for the bookId and userEmail
\* of the body.
postReviewsHasPurchased(q, coll) ==
    IF ~hasPurchased(coll, q.body.bookId, q.body.email)
    THEN Send(q, 403, "You must purchase this book to review")
    ELSE [q EXCEPT !.pc = "reviews.findOne"]

\* req.body is read here and kept in the request.
PostReviewsHasPurchased(r) ==
    /\ reqs[r].pc = "orders.findOne"
    /\ \E b \in ReviewBookIds, e \in Emails :
           reqs' = [reqs EXCEPT ![r] =
                        postReviewsHasPurchased([@ EXCEPT !.storeOps = @ + 1, !.body.bookId = b,
                                                          !.body.email = e], orders)]
    /\ UNCHANGED <<server, attempt, dbConnected, collections, users, books, orders, nextId,
                   arrivals, reviews, payments>>

PostReviewsAlreadyReviewed(r) ==
    /\ reqs[r].pc = "reviews.findOne"
    /\ reqs' = [reqs EXCEPT ![r] =
                    IF alreadyReviewed(reviews, @.body.bookId, @.body.email)
                    THEN Send([@ EXCEPT !.storeOps = @ + 1], 400,
                              "You already reviewed this book")
                    ELSE [@ EXCEPT !.storeOps = @ + 1, !.pc = "reviews.insertOne"]]
    /\ UNCHANGED <<server, attempt, dbConnected, collections, users, books, orders, nextId,
                   arrivals, reviews, payments>>

PostReviewsInsertOne(r) ==
    /\ reqs[r].pc = "reviews.insertOne"
    /\ Len(reviews) < MaxReviews
    /\ reviews' = Append(reviews, [bookId |-> reqs[r].body.bookId,
                                   userEmail |-> reqs[r].body.email])
    /\ reqs' = [reqs EXCEPT ![r] = Send([@ EXCEPT !.storeOps = @ + 1], 200, "insertedId")]
    /\ UNCHANGED <<server, attempt, dbConnected, collections, users, books, orders, nextId,
                   arrivals, payments>>

\* GET /reviews/can/:bookId/:email: the order lookup for the bookId and email of
\* the path, which are read here and kept in the request.
ReviewsCanOrder(r) ==
    /\ reqs[r].pc = "can.orders.findOne"
    /\ \E b \in ReviewBookIds, e \in Emails :
           reqs' = [reqs EXCEPT ![r] = [@ EXCEPT !.storeOps = @ + 1, !.body.bookId = b,
                                                 !.body.email = e,
                                                 !.order = hasPurchased(orders, b, e),
                                                 !.pc = "can.reviews.findOne"]]
    /\ UNCHANGED <<server, attempt, dbConnected, collections, users, books, orders, nextId,
                   arrivals, reviews, payments>>

\* canReview answered from the order alone
canReviewOrderOnly(order, review) == order

\* canReview: !!order && !review
canReview(order, review) == order /\ ~review

\* The review lookup, then the answer
ReviewsCanReview(r) ==
    /\ reqs[r].pc = "can.reviews.findOne"
    /\ reqs' = [reqs EXCEPT ![r] =
                    Send([@ EXCEPT !.storeOps = @ + 1], 200,
                         IF canReview(@.order, alreadyReviewed(reviews, @.body.bookId,
                                                               @.body.email))
                         THEN "canReview: true" ELSE "canReview: false")]
    /\ UNCHANGED <<server, attempt, dbConnected, collections, users, books, orders, nextId,
                   arrivals, reviews, payments>>

NextData ==
    \/ ConnectOk
    \/ ConnectFail
    \/ Retry
    \/ Listen
    \/ \E r \in Slots : ReceiveData(r)
    \/ \E r \in Slots : TokenChecked(r)
    \/ \E r \in Slots : Gate(r)
    \/ \E r \in Slots : GetBooksFindOne(r)
    \/ \E r \in Slots : GetBooksFind(r)
    \/ \E r \in Slots : GetOrdersEmail(r)
    \/ \E r \in Slots : GetWishlistEmail(r)
    \/ \E r \in Slots : GetPayments(r)
    \/ \E r \in Slots : GetUserStats(r)
    \/ \E r \in Slots : StoreThrows(r)

SpecData == InitData /\ [][NextData]_vars

ReceiveReviews(r) ==
    /\ server = "listening"
    /\ reqs[r].pc \in {"idle", "done"}
    /\ arrivals < MaxArrivals
    /\ arrivals' = arrivals + 1
    /\ \E ro \in ReviewRoutes, h \in Headers :
           reqs' = [reqs EXCEPT ![r] = ensureDb(NewReq(ro, h, NoBody), dbConnected,
                                                collections)]
    /\ UNCHANGED <<server, attempt, dbConnected, collections, users, books, orders, nextId,
                   reviews, payments>>

NextReviews ==
    \/ ConnectOk
    \/ ConnectFail
    \/ Retry
    \/ Listen
    \/ \E r \in Slots : ReceiveReviews(r)
    \/ \E r \in Slots : TokenChecked(r)
    \/ \E r \in Slots : PostReviewsHasPurchased(r)
    \/ \E r \in Slots : PostReviewsAlreadyReviewed(r)
    \/ \E r \in Slots : PostReviewsInsertOne(r)
    \/ \E r \in Slots : ReviewsCanOrder(r)
    \/ \E r \in Slots : ReviewsCanReview(r)
    \/ \E r \in Slots : StoreThrows(r)

SpecReviews == InitData /\ [][NextReviews]_vars

(* ------------- the earlier revision (src/index.js:731-1178) ------------ *)
\* connectDB(): client.connect() resolves and the collection handles are assigned
ConnectDBOk ==
    /\ server = "connecting"
    /\ collections' = TRUE
    /\ server' = "connected"
    /\ UNCHANGED <<attempt, dbConnected, users, books, orders, nextId, reqs, arrivals, reviews,
                   payments>>

\* connectDB(): client.connect() throws; the catch logs and the handles stay undefined
ConnectDBFail ==
    /\ server = "connecting"
    /\ server' = "failed"
    /\ UNCHANGED <<attempt, dbConnected, collections, users, books, orders, nextId, reqs,
                   arrivals, reviews, payments>>

\* The process of the earlier revision is running.
Alive == server \in {"connecting", "connected", "failed"}

\* app.listen runs at once and there is no ensureDb: a request enters its chain
\* whatever connectDB() has done so far.
ReceiveOld(r) ==
    /\ Alive
    /\ reqs[r].pc \in {"idle", "done"}
    /\ arrivals < MaxArrivals
    /\ arrivals' = arrivals + 1
    /\ \E q \in {i \in Inputs : usesToken(i.route)} :
           reqs' = [reqs EXCEPT ![r] = verifyFBToken(q)]
    /\ UNCHANGED <<server, attempt, dbConnected, collections, users, books, orders, nextId,
                   reviews, payments>>

\* verifyFBToken from its await on, then the gate or the handler up to its store
\* call: on an undefined handle the call throws a TypeError that nothing catches.
verifyFBTokenResumeOld(q, handles) ==
    LET g == verifyFBTokenResume(q)
    IN IF g.pc = "done" \/ handles THEN g
       ELSE [g EXCEPT !.pc = "hung", !.gate = gateOf(q.route)]

\* The request of an uncaught rejection gets no response, and the unhandled
\* rejection ends the process or does not, as the runtime decides.
TokenCheckedOld(r) ==
    /\ Alive
    /\ reqs[r].pc = "verifyIdToken"
    /\ reqs' = [reqs EXCEPT ![r] = verifyFBTokenResumeOld(@, collections)]
    /\ server' \in IF reqs'[r].pc = "hung" THEN {server, "crashed"} ELSE {server}
    /\ UNCHANGED <<attempt, dbConnected, collections, users, books, orders, nextId, arrivals,
                   reviews, payments>>

\* A store call of a gate or a handler rejects: the earlier revision has no
\* try/catch around them.
StoreThrowsOld(r) ==
    /\ Alive
    /\ reqs[r].pc \in StoreAwaits
    /\ reqs' = [reqs EXCEPT ![r].pc = "hung"]
    /\ server' \in {server, "crashed"}
    /\ UNCHANGED <<attempt, dbConnected, collections, users, books, orders, nextId, arrivals,
                   reviews, payments>>

NextOld ==
    \/ ConnectDBOk
    \/ ConnectDBFail
    \/ \E r \in Slots : ReceiveOld(r)
    \/ \E r \in Slots : TokenCheckedOld(r)
    \/ \E r \in Slots : Alive /\ Gate(r)
    \/ \E r \in Slots : Alive /\ GetUsers(r)
    \/ \E r \in Slots : Alive /\ PatchUsersRole(r)
    \/ \E r \in Slots : Alive /\ DeleteUsers(r)
    \/ \E r \in Slots : Alive /\ PostBooks(r)
    \/ \E r \in Slots : Alive /\ GetOrders(r)
    \/ \E r \in Slots : Alive /\ PostOrders(r)
    \/ \E r \in Slots : StoreThrowsOld(r)

SpecOld == Init /\ [][NextOld]_vars

(* ------------------------------ payments ------------------------------- *)
\* The checkout sessions the payment provider holds: cs1 is paid by "a", cs2 is
\* an open session of "b" that has not been paid.
NoSession == [payment_intent |-> "", customer_email |-> "", bookId |-> "",
              payment_status |-> ""]

\* stripe.checkout.sessions.retrieve(sessionId): the session, NoSession when the
\* provider knows none of that id and the call throws.
retrieve(sessionId) ==
    CASE sessionId = "cs1" -> [payment_intent |-> "pi1", customer_email |-> "a",
                               bookId |-> "bk1", payment_status |-> "paid"]
      [] sessionId = "cs2" -> [payment_intent |-> "pi2", customer_email |-> "b",
                               bookId |-> "bk1", payment_status |-> "unpaid"]
      [] OTHER -> NoSession

\* req.query.session_id as a client sends it: absent, a session, an unknown id
SessionIds == {"", "cs1", "cs2", "cs9"}

\* The server with a registered user "b" and unpaid orders of "a" and "b" for bk1.
InitPay ==
    /\ server = "connecting"
    /\ attempt = 1
    /\ dbConnected = FALSE
    /\ collections = FALSE
    /\ users = <<[id |-> 1, email |-> "a", role |-> "admin"],
                 [id |-> 2, email |-> "b", role |-> "user"]>>
    /\ books = 0
    /\ orders = <<postOrders([NoBody EXCEPT !.email = "a", !.bookId = "bk1"]),
                  postOrders([NoBody EXCEPT !.email = "b", !.bookId = "bk1"])>>
    /\ nextId = 3
    /\ reqs = [r \in Slots |-> Idle]
    /\ arrivals = 0
    /\ reviews = <<>>
    /\ payments = <<>>

ReceivePay(r) ==
    /\ server = "listening"
    /\ reqs[r].pc \in {"idle", "done"}
    /\ arrivals < MaxArrivals
    /\ arrivals' = arrivals + 1
    /\ \E h \in Headers, sid \in SessionIds :
           reqs' = [reqs EXCEPT ![r] =
                        ensureDb(NewReq("PATCH /payment-success", h,
                                        [NoBody EXCEPT !.session_id = sid]),
                                 dbConnected, collections)]
    /\ UNCHANGED <<server, attempt, dbConnected, collections, users, books, orders, nextId,
                   reviews, payments>>

\* The provider answers the retrieve: the session, or an error into the catch block
SessionsRetrieve(r) ==
    /\ reqs[r].pc = "sessions.retrieve"
    /\ reqs' = [reqs EXCEPT ![r] = IF retrieve(@.body.session_id) = NoSession
                                    THEN Send(@, 500, "Payment failed")
                                    ELSE [@ EXCEPT !.pc = "payments.findOne"]]
    /\ UNCHANGED <<server, attempt, dbConnected, collections, users, books, orders, nextId,
                   arrivals, reviews, payments>>

\* paymentCollection.findOne({ transactionId }) finds a document
existingPayment(coll, transactionId) ==
    \E i \in 1..Len(coll) : coll[i].transactionId = transactionId

\* "Avoid duplicate record": success with the stored payment, or on to insertOne
PaymentsFindOne(r) ==
    /\ reqs[r].pc = "payments.findOne"
    /\ reqs' = [reqs EXCEPT ![r] =
                    IF existingPayment(payments, retrieve(@.body.session_id).payment_intent)
                    THEN Send([@ EXCEPT !.storeOps = @ + 1], 200, "success: existingPayment")
                    ELSE [@ EXCEPT !.storeOps = @ + 1, !.pc = "payments.insertOne"]]
    /\ UNCHANGED <<server, attempt, dbConnected, collections, users, books, orders, nextId,
                   arrivals, reviews, payments>>

\* The payment document built from the session
payment(session) ==
    [customerEmail |-> session.customer_email, transactionId |-> session.payment_intent,
     bookId |-> session.bookId, paymentStatus |-> session.payment_status]

PaymentsInsertOne(r) ==
    /\ reqs[r].pc = "payments.insertOne"
    /\ Len(payments) < MaxPayments
    /\ payments' = Append(payments, payment(retrieve(reqs[r].body.session_id)))
    /\ reqs' = [reqs EXCEPT ![r] = [@ EXCEPT !.storeOps = @ + 1, !.pc = "orders.updateOne"]]
    /\ UNCHANGED <<server, attempt, dbConnected, collections, users, books, orders, nextId,
                   arrivals, reviews>>

\* The position of the first order of that customer for that book, 0 for none
firstOrder(coll, bookId, email) ==
    IF hasPurchased(coll, bookId, email)
    THEN Min({i \in 1..Len(coll) : coll[i].bookId = bookId /\ coll[i].customerEmail = email})
    ELSE 0

\* ordersCollection.updateOne({ bookId, customerEmail }, { $set: { paymentStatus: "paid" } })
markPaid(coll, session) ==
    [i \in 1..Len(coll) |->
        IF i = firstOrder(coll, session.bookId, session.customer_email)
        THEN [coll[i] EXCEPT !.paymentStatus = "paid"]
        ELSE coll[i]]

OrdersUpdateOne(r) ==
    /\ reqs[r].pc = "orders.updateOne"
    /\ orders' = markPaid(orders, retrieve(reqs[r].body.session_id))
    /\ reqs' = [reqs EXCEPT ![r] = Send([@ EXCEPT !.storeOps = @ + 1], 200, "success: payment")]
    /\ UNCHANGED <<server, attempt, dbConnected, collections, users, books, nextId, arrivals,
                   reviews, payments>>

NextPay ==
    \/ ConnectOk
    \/ ConnectFail
    \/ Retry
    \/ Listen
    \/ \E r \in Slots : ReceivePay(r)
    \/ \E r \in Slots : TokenChecked(r)
    \/ \E r \in Slots : SessionsRetrieve(r)
    \/ \E r \in Slots : PaymentsFindOne(r)
    \/ \E r \in Slots : PaymentsInsertOne(r)
    \/ \E r \in Slots : OrdersUpdateOne(r)
    \/ \E r \in Slots : StoreThrows(r)

SpecPay == InitPay /\ [][NextPay]_vars

(* ---------------- the revision of src/unnamed/part_000 ----------------- *)
\* The order routes of part_000 and the gate each is registered with.
Routes000 == {"GET /orders", "DELETE /orders/:id", "POST /orders"}

gateOf000(route) ==
    CASE route \in {"GET /orders", "DELETE /orders/:id"} -> "verifyLibrarian"
      [] OTHER -> "none"

\* The server of part_000 with a librarian "b" registered and one order stored.
Init000 ==
    /\ server = "connecting"
    /\ attempt = 1
    /\ dbConnected = FALSE
    /\ collections = FALSE
    /\ users = <<[id |-> 1, email |-> "a", role |-> "admin"],
                 [id |-> 2, email |-> "b", role |-> "librarian"]>>
    /\ books = 0
    /\ orders = <<postOrders([NoBody EXCEPT !.email = "a", !.bookId = "bk1"])>>
    /\ nextId = 3
    /\ reqs = [r \in Slots |-> Idle]
    /\ arrivals = 0
    /\ reviews = <<>>
    /\ payments = <<>>

\* run(): client.connect() resolves and the routes are registered
Run000Ok ==
    /\ server = "connecting"
    /\ server' = "registered"
    /\ UNCHANGED <<attempt, dbConnected, collections, users, books, orders, nextId, reqs,
                   arrivals, reviews, payments>>

\* run(): client.connect() throws; the catch logs and no route is registered
Run000Fail ==
    /\ server = "connecting"
    /\ server' = "failed"
    /\ UNCHANGED <<attempt, dbConnected, collections, users, books, orders, nextId, reqs,
                   arrivals, reviews, payments>>

\* verifyFBToken of part_000 up to its await
verifyFBToken000(q) ==
    IF q.hdr = <<>> THEN Send(q, 401, "unauthorized access")
    ELSE [q EXCEPT !.pc = "verifyIdToken"]

\* verifyFBToken of part_000 from its await on
verifyFBTokenResume000(q) ==
    IF verifyIdToken(tokenOf(q.hdr)) = "" THEN Send(q, 401, "invalid token")
    ELSE IF gateOf000(q.route) = "none"
         THEN handlerEntry([q EXCEPT !.decoded_email = verifyIdToken(tokenOf(q.hdr))])
         ELSE [q EXCEPT !.decoded_email = verifyIdToken(tokenOf(q.hdr)), !.pc = "gate"]

\* A role gate of part_000 from its findOne on
roleGate000(q, coll) ==
    LET user == findOne(coll, q.decoded_email)
        g == [q EXCEPT !.gate = gateOf000(q.route), !.user = user, !.lookups = @ + 1,
                       !.storeOps = @ + 1]
    IN IF gateRejects(gateOf000(q.route), user)
       THEN Send(g, 403, "forbidden access")
       ELSE handlerEntry(g)

\* app.listen runs at once: before run() registered the routes, express answers 404
Receive000(r) ==
    /\ server \in {"connecting", "registered", "failed"}
    /\ reqs[r].pc \in {"idle", "done"}
    /\ arrivals < MaxArrivals
    /\ arrivals' = arrivals + 1
    /\ \E ro \in Routes000, h \in Headers :
           reqs' = [reqs EXCEPT ![r] = IF server = "registered"
                                        THEN verifyFBToken000(NewReq(ro, h, NoBody))
                                        ELSE Send(NewReq(ro, h, NoBody), 404, "Cannot")]
    /\ UNCHANGED <<server, attempt, dbConnected, collections, users, books, orders, nextId,
                   reviews, payments>>

TokenChecked000(r) ==
    /\ server = "registered"
    /\ reqs[r].pc = "verifyIdToken"
    /\ reqs' = [reqs EXCEPT ![r] = verifyFBTokenResume000(@)]
    /\ UNCHANGED <<server, attempt, dbConnected, collections, users, books, orders, nextId,
                   arrivals, reviews, payments>>

Gate000(r) ==
    /\ server = "registered"
    /\ reqs[r].pc = "gate"
    /\ reqs' = [reqs EXCEPT ![r] = roleGate000(@, users)]
    /\ UNCHANGED <<server, attempt, dbConnected, collections, users, books, orders, nextId,
                   arrivals, reviews, payments>>

\* ordersCollection.deleteOne({ _id }): the document at position i, none for i = 0
deleteOrder(coll, i) ==
    [j \in 1..(Len(coll) - (IF i \in 1..Len(coll) THEN 1 ELSE 0)) |->
        IF i \in 1..Len(coll) /\ j >= i THEN coll[j + 1] ELSE coll[j]]

DeleteOrders000(r) ==
    /\ server = "registered"
    /\ reqs[r].pc = "orders.deleteOne"
    /\ \E i \in 0..MaxOrders : orders' = deleteOrder(orders, i)
    /\ reqs' = [reqs EXCEPT ![r] = Send([@ EXCEPT !.storeOps = @ + 1], 200, "deletedCount")]
    /\ UNCHANGED <<server, attempt, dbConnected, collections, users, books, nextId, arrivals,
                   reviews, payments>>

\* A store call of a gate or a handler rejects: part_000 has no try/catch around
\* them, so the request gets no response, and the unhandled rejection ends the
\* process or does not, as the runtime decides.
StoreThrows000(r) ==
    /\ server = "registered"
    /\ reqs[r].pc \in {"gate", "orders.find", "orders.deleteOne", "orders.insertOne"}
    /\ reqs' = [reqs EXCEPT ![r].pc = "hung"]
    /\ server' \in {server, "exited"}
    /\ UNCHANGED <<attempt, dbConnected, collections, users, books, orders, nextId, arrivals,
                   reviews, payments>>

Next000 ==
    \/ Run000Ok
    \/ Run000Fail
    \/ \E r \in Slots : Receive000(r)
    \/ \E r \in Slots : TokenChecked000(r)
    \/ \E r \in Slots : Gate000(r)
    \/ \E r \in Slots : server = "registered" /\ GetOrders(r)
    \/ \E r \in Slots : server = "registered" /\ PostOrders(r)
    \/ \E r \in Slots : DeleteOrders000(r)
    \/ \E r \in Slots : StoreThrows000(r)

Spec000 == Init000 /\ [][Next000]_vars

(* ---------------- the first revision (src/unnamed/part_001) ------------ *)
\* run(): client.connect() resolves and the routes are registered
Run001Ok ==
    /\ server = "connecting"
    /\ server' = "registered"
    /\ UNCHANGED <<attempt, dbConnected, collections, users, books, orders, nextId, reqs, arrivals, reviews,
                   payments>>

\* run(): client.connect() throws; the catch logs and no route is registered
Run001Fail ==
    /\ server = "connecting"
    /\ server' = "failed"
    /\ UNCHANGED <<attempt, dbConnected, collections, users, books, orders, nextId, reqs, arrivals, reviews,
                   payments>>

\* POST /users of part_001 up to its findOne: the body is kept as sent
postUsers001(q) == [q EXCEPT !.handlerRan = TRUE, !.pc = "users.findOne"]

\* app.listen runs at once: before run() registered the route, express answers 404
Receive001(r) ==
    /\ server \in {"connecting", "registered", "failed"}
    /\ reqs[r].pc \in {"idle", "done"}
    /\ arrivals < MaxArrivals
    /\ arrivals' = arrivals + 1
    /\ \E q \in {i \in Inputs : i.route = "POST /users"} :
           reqs' = [reqs EXCEPT ![r] = IF server = "registered" THEN postUsers001(q)
                                        ELSE Send(q, 404, "Cannot POST /users")]
    /\ UNCHANGED <<server, attempt, dbConnected, collections, users, books, orders, nextId, reviews,
                   payments>>

postUsersFindOne001(q, coll) ==
    IF findOne(coll, q.body.email) # NoDoc
    THEN Send([q EXCEPT !.storeOps = @ + 1], 200,
              "user already exits. do not need to insert again")
    ELSE [q EXCEPT !.storeOps = @ + 1, !.pc = "users.insertOne"]

FindOne001(r) ==
    /\ server = "registered"
    /\ reqs[r].pc = "users.findOne"
    /\ reqs' = [reqs EXCEPT ![r] = postUsersFindOne001(@, users)]
    /\ UNCHANGED <<server, attempt, dbConnected, collections, users, books, orders, nextId, arrivals, reviews,
                   payments>>

InsertOne001(r) ==
    /\ server = "registered"
    /\ reqs[r].pc = "users.insertOne"
    /\ nextId <= MaxIds
    /\ users' = insertOne(users, reqs[r].body, nextId)
    /\ nextId' = nextId + 1
    /\ reqs' = [reqs EXCEPT ![r] = Send([@ EXCEPT !.storeOps = @ + 1], 200, "insertedId")]
    /\ UNCHANGED <<server, attempt, dbConnected, collections, books, orders, arrivals, reviews,
                   payments>>

\* A store call of the handler throws: part_001 has no try/catch, so the request
\* gets no response, and the unhandled rejection ends the process or does not,
\* as the runtime decides.
StoreThrows001(r) ==
    /\ server = "registered"
    /\ reqs[r].pc \in {"users.findOne", "users.insertOne"}
    /\ reqs' = [reqs EXCEPT ![r].pc = "hung"]
    /\ server' \in {server, "exited"}
    /\ UNCHANGED <<attempt, dbConnected, collections, users, books, orders, nextId, arrivals, reviews,
                   payments>>

Next001 ==
    \/ Run001Ok
    \/ Run001Fail
    \/ \E r \in Slots : Receive001(r)
    \/ \E r \in Slots : FindOne001(r)
    \/ \E r \in Slots : InsertOne001(r)
    \/ \E r \in Slots : StoreThrows001(r)

Spec001 == Init /\ [][Next001]_vars

(* ======================================================================= *)
(* The claims                                                              *)
(* ======================================================================= *)
Roles == {"user", "librarian", "admin"}

Arrived(q) == q.pc # "idle"

\* The token of the request's header is one the identity provider rejects.
InvalidToken(q) == q.hdr # <<>> /\ verifyIdToken(tokenOf(q.hdr)) = ""

\* C1: a request without an Authorization header on a route behind verifyFBToken is
\* answered 401 "Unauthorized" on arrival, on every such route; nothing of the
\* chain after it runs and the store is not touched.
C1_NoHeaderIs401 ==
    \A r \in Slots :
        (Arrived(reqs[r]) /\ usesToken(reqs[r].route) /\ reqs[r].hdr = <<>>)
            => /\ reqs[r].pc = "done"
               /\ reqs[r].status = 401
               /\ reqs[r].msg = "Unauthorized"
               /\ reqs[r].sent = 1
               /\ ~reqs[r].handlerRan
               /\ reqs[r].storeOps = 0

C1_Witness ==
    \E r1, r2 \in Slots :
        /\ reqs[r1].route = "PATCH /users/role/:id" /\ reqs[r1].hdr = <<>> /\ reqs[r1].status = 401
        /\ reqs[r2].route = "POST /orders" /\ reqs[r2].hdr = <<>> /\ reqs[r2].status = 401

\* C2: when the lookup of a gate finds no record for the verified email, the gate
\* answers 403 and the handler does not run, for each of the three gates; the
\* request was verified, and is not answered 401.
C2_MissingRecordForbidden ==
    \A r \in Slots :
        (reqs[r].gate # "none" /\ reqs[r].user = NoDoc)
            => /\ reqs[r].decoded_email \in Emails
               /\ reqs[r].pc = "done"
               /\ reqs[r].status = 403
               /\ reqs[r].sent = 1
               /\ ~reqs[r].handlerRan

C2_Witness ==
    \E r1, r2 \in Slots :
        /\ reqs[r1].gate = "verifyAdmin" /\ reqs[r1].user = NoDoc /\ reqs[r1].status = 403
        /\ reqs[r2].gate = "verifyLibrarian" /\ reqs[r2].user = NoDoc /\ reqs[r2].status = 403
        /\ reqs[r1].decoded_email = "b" /\ reqs[r2].decoded_email = "b"

\* The reference table of section 8: the roles each gate lets through.
ReferenceTable(gate) ==
    CASE gate = "verifyAdmin" -> {"admin"}
      [] gate = "verifyLibrarian" -> {"admin", "librarian"}
      [] gate = "verifyAdminOrLibrarian" -> {"admin", "librarian"}

\* C3: for a record with one of the three roles, the gate lets the request through
\* to the handler exactly when the reference table holds the role, and answers
\* 403 otherwise.
C3_GateTable ==
    \A r \in Slots :
        (reqs[r].gate # "none" /\ reqs[r].user # NoDoc /\ reqs[r].user.role \in Roles)
            => IF reqs[r].user.role \in ReferenceTable(reqs[r].gate)
               THEN reqs[r].handlerRan /\ reqs[r].status # 403
               ELSE ~reqs[r].handlerRan /\ reqs[r].pc = "done" /\ reqs[r].status = 403

C3_Witness ==
    \E r \in Slots :
        /\ reqs[r].gate = "verifyLibrarian" /\ reqs[r].user.role = "librarian"
        /\ reqs[r].handlerRan /\ reqs[r].status = 200

\* C4: a request is at a gate, or has been through one, only with decoded_email
\* set to the email the identity provider returned for its token.
C4_GateAfterVerify ==
    \A r \in Slots :
        (reqs[r].pc = "gate" \/ reqs[r].gate # "none" \/ reqs[r].lookups > 0)
            => /\ reqs[r].decoded_email # "unset"
               /\ reqs[r].decoded_email # ""
               /\ reqs[r].decoded_email = verifyIdToken(tokenOf(reqs[r].hdr))

C4_Witness ==
    \E r \in Slots :
        /\ reqs[r].gate = "verifyAdmin" /\ reqs[r].lookups = 1
        /\ reqs[r].decoded_email = "b" /\ reqs[r].hdr = <<"Bearer", "tokB">>

\* C5: a request whose token the identity provider rejects never has a store
\* operation made for it, waits for the provider or is done, and is answered 401.
C5_InvalidTokenNoLookup ==
    \A r \in Slots :
        (Arrived(reqs[r]) /\ usesToken(reqs[r].route) /\ InvalidToken(reqs[r]))
            => /\ reqs[r].storeOps = 0
               /\ reqs[r].lookups = 0
               /\ reqs[r].pc \in {"verifyIdToken", "done"}
               /\ reqs[r].pc = "done" => (reqs[r].status = 401 /\ reqs[r].msg = "Invalid Token")

C5_Witness ==
    \E r1, r2 \in Slots :
        /\ reqs[r1].hdr = <<"Bearer", "bad">> /\ reqs[r1].route = "GET /users"
        /\ reqs[r1].status = 401
        /\ reqs[r2].hdr = <<"tokA">> /\ reqs[r2].route = "DELETE /users/:id"
        /\ reqs[r2].status = 401

\* C6: the handler of a route behind verifyFBToken and a gate runs only for a
\* request that was verified and that the route's gate let through; a request
\* answered 401, 403 or 503 got that one response, its handler did not run and no
\* store operation but the gate's lookup was made for it.
C6_ShortCircuit ==
    \A r \in Slots :
        /\ reqs[r].sent <= 1
        /\ (reqs[r].handlerRan /\ usesToken(reqs[r].route)) => reqs[r].decoded_email \in Emails
        /\ (reqs[r].handlerRan /\ gateOf(reqs[r].route) # "none")
               => /\ reqs[r].gate = gateOf(reqs[r].route)
                  /\ reqs[r].user # NoDoc
                  /\ reqs[r].user.role \in {"admin", "librarian"}
        /\ reqs[r].status \in {401, 403, 503}
               => /\ reqs[r].pc = "done"
                  /\ reqs[r].sent = 1
                  /\ ~reqs[r].handlerRan
                  /\ reqs[r].storeOps = reqs[r].lookups

C6_Witness ==
    \E r1, r2 \in Slots :
        /\ reqs[r1].route = "PATCH /users/role/:id" /\ reqs[r1].status = 403
        /\ reqs[r1].sent = 1 /\ ~reqs[r1].handlerRan
        /\ reqs[r2].route = "PATCH /users/role/:id" /\ reqs[r2].status = 200
        /\ reqs[r2].handlerRan

\* C7: the users collection holds at most one record for an email.
C7_OneRecordPerEmail ==
    \A i, j \in 1..Len(users) : users[i].email = users[j].email => i = j

\* The record of the collection with this _id, NoDoc when there is none.
byId(coll, id) ==
    IF \E i \in 1..Len(coll) : coll[i].id = id
    THEN coll[CHOOSE i \in 1..Len(coll) : coll[i].id = id]
    ELSE NoDoc

\* C8: a step changes the role of a record that exists before and after it only
\* when it is the updateOne of PATCH /users/role/:id, made for a request that was
\* verified and that verifyAdmin let through on a record of role admin.
C8_RoleChangeOnlyByAdminPatch ==
    [][\A id \in 1..MaxIds :
           (/\ byId(users, id) # NoDoc
            /\ byId(users', id) # NoDoc
            /\ byId(users, id).role # byId(users', id).role)
               => \E r \in Slots :
                      /\ reqs[r].route = "PATCH /users/role/:id"
                      /\ reqs[r].pc = "users.updateOne"
                      /\ reqs[r].decoded_email \in Emails
                      /\ reqs[r].gate = "verifyAdmin"
                      /\ reqs[r].user.role = "admin"
                      /\ reqs'[r].pc = "done"]_vars

C8_Witness ==
    /\ byId(users, 1).role = "librarian"
    /\ \E r \in Slots : reqs[r].route = "PATCH /users/role/:id" /\ reqs[r].status = 200

\* C9: a step that inserts a record into the users collection inserts it with
\* role user.
C9_RegisteredAsUser ==
    [][\A id \in 1..MaxIds :
           (byId(users, id) = NoDoc /\ byId(users', id) # NoDoc)
               => byId(users', id).role = "user"]_vars

\* C10: every record of the users collection has one of the three roles.
C10_RolesEnumerated ==
    \A i \in 1..Len(users) : users[i].role \in Roles

\* C16: a request to a route behind verifyFBToken and a role gate that is answered
\* without its handler having run is answered 401 or 403: the chain has no outcome
\* other than Authorized, 401 and 403.
C16_ThreeOutcomes ==
    \A r \in Slots :
        (gateOf(reqs[r].route) # "none" /\ reqs[r].pc = "done" /\ ~reqs[r].handlerRan)
            => reqs[r].status \in {401, 403}

\* C18: a gate decides on the users collection as it is at the step of its own
\* lookup: the record it holds is findOne of the current collection, and the
\* request goes on to the handler exactly when that record's role is in the
\* reference table, so a record demoted or deleted before the lookup is rejected.
C18_GateReadsStore ==
    [][\A r \in Slots :
           (reqs[r].pc = "gate" /\ reqs'[r].gate # "none")
               => /\ reqs'[r].user = findOne(users, reqs[r].decoded_email)
                  /\ IF /\ findOne(users, reqs[r].decoded_email) # NoDoc
                        /\ findOne(users, reqs[r].decoded_email).role
                               \in ReferenceTable(reqs'[r].gate)
                     THEN reqs'[r].handlerRan /\ reqs'[r].status # 403
                     ELSE /\ ~reqs'[r].handlerRan
                          /\ reqs'[r].pc = "done"
                          /\ reqs'[r].status = 403]_vars

\* The seeded admin "a" has been demoted or deleted, and a gate has rejected a
\* request of "a" that it looked up afterwards.
C18_Witness ==
    /\ findOne(users, "a") = NoDoc \/ findOne(users, "a").role # "admin"
    /\ \E r \in Slots :
           /\ reqs[r].decoded_email = "a"
           /\ reqs[r].gate = "verifyAdmin"
           /\ reqs[r].user = findOne(users, "a")
           /\ reqs[r].status = 403

\* C19: a request waiting for the answer of verifyIdToken stops waiting in the end,
\* whether or not the identity provider answers (the bounded wait without which
\* the request gets no response).
C19_VerifyBounded ==
    \A r \in Slots : (reqs[r].pc = "verifyIdToken") ~> (reqs[r].pc # "verifyIdToken")

\* The roles that the answered updates of the two requests have written to record id.
Written(r1, r2, id) ==
    {reqs[r].body.role : r \in {x \in {r1, r2} : /\ reqs[x].pc = "done"
                                                  /\ reqs[x].status = 200
                                                  /\ reqs[x].id = id}}

\* C15: when the only two requests are role updates, the role of the user record 2
\* is the old value (user) or a value one of the two has written, and a value one
\* of them has written once both have written it; every step that changes a role
\* is the updateOne of one request and sets the role to the value that request
\* asked for, leaving the rest of the record as it was.
C15_LastWriteWins ==
    /\ [](\A r1, r2 \in Slots :
             (/\ r1 # r2
              /\ arrivals = 2
              /\ reqs[r1].route = "PATCH /users/role/:id"
              /\ reqs[r2].route = "PATCH /users/role/:id")
                 => /\ byId(users, 2).role \in {"user"} \cup Written(r1, r2, 2)
                    /\ (reqs[r1].id = 2 /\ reqs[r2].id = 2)
                           => byId(users, 2).role \in Written(r1, r2, 2))
    /\ [][\A id \in 1..MaxIds :
             (byId(users, id) # NoDoc /\ byId(users', id) # byId(users, id)
                 /\ byId(users', id) # NoDoc)
                 => \E r \in Slots :
                        /\ reqs[r].pc = "users.updateOne"
                        /\ reqs'[r].pc = "done"
                        /\ reqs'[r].id = id
                        /\ byId(users', id)
                               = [byId(users, id) EXCEPT !.role = reqs'[r].body.role]]_vars

\* Both updates of record 2 have completed, to librarian and to admin, and the
\* record holds librarian.
C15_Witness ==
    \E r1, r2 \in Slots :
        /\ r1 # r2
        /\ reqs[r1].route = "PATCH /users/role/:id" /\ reqs[r1].status = 200
        /\ reqs[r2].route = "PATCH /users/role/:id" /\ reqs[r2].status = 200
        /\ reqs[r1].id = 2 /\ reqs[r1].body.role = "librarian"
        /\ reqs[r2].id = 2 /\ reqs[r2].body.role = "admin"
        /\ byId(users, 2).role = "librarian"

\* C11: two POST /reviews requests of the same verified principal for the same
\* book, whose purchase test has been answered, get the same decision (both 403
\* or both allowed) whatever userEmail their bodies carry.
C11_DecisionByToken ==
    \A r1, r2 \in Slots :
        (/\ reqs[r1].route = "POST /reviews" /\ reqs[r2].route = "POST /reviews"
         /\ reqs[r1].storeOps >= 1 /\ reqs[r2].storeOps >= 1
         /\ reqs[r1].decoded_email = reqs[r2].decoded_email
         /\ reqs[r1].body.bookId = reqs[r2].body.bookId)
            => (reqs[r1].status = 403 <=> reqs[r2].status = 403)

\* C12: on a self-access route a verified request whose requested email differs
\* from the email of the token is answered 403 with no store operation made, and
\* a request answered 200 is a verified one that asked for the email of its token.
C12_SelfAccess ==
    \A r \in Slots :
        reqs[r].route \in SelfRoutes
            => /\ (reqs[r].decoded_email \in Emails /\ reqs[r].body.email # reqs[r].decoded_email)
                      => /\ reqs[r].pc = "done"
                         /\ reqs[r].status = 403
                         /\ reqs[r].storeOps = 0
               /\ reqs[r].storeOps > 0 => reqs[r].body.email = reqs[r].decoded_email
               /\ reqs[r].status = 200
                      => /\ reqs[r].decoded_email \in Emails
                         /\ reqs[r].body.email = reqs[r].decoded_email

\* "b" asking for the orders of "a" is refused, "a" asking for its own stats is served.
C12_Witness ==
    \E r1, r2 \in Slots :
        /\ reqs[r1].route = "GET /orders/:email" /\ reqs[r1].decoded_email = "b"
        /\ reqs[r1].body.email = "a" /\ reqs[r1].status = 403
        /\ reqs[r2].route = "GET /user-stats/:email" /\ reqs[r2].decoded_email = "a"
        /\ reqs[r2].body.email = "a" /\ reqs[r2].status = 200 /\ reqs[r2].storeOps = 4

\* C17: a request to a role-gated route that its gate has looked up and that has
\* been answered has made exactly one lookup of the requester's record.
C17_OneLookup ==
    \A r \in Slots :
        (gateOf(reqs[r].route) # "none" /\ reqs[r].gate # "none" /\ reqs[r].pc = "done")
            => reqs[r].lookups = 1

C13_UnavailableIs503 ==
    /\ server # "crashed"
    /\ \A r \in Slots :
           (/\ ~collections
            /\ gateOf(reqs[r].route) # "none"
            /\ reqs[r].decoded_email \in Emails)
               => /\ reqs[r].pc = "done"
                  /\ reqs[r].status = 503
                  /\ reqs[r].storeOps = 0

\* C14: a request has been received only in a state where the connection to the
\* store has been established.
C14_ListenAfterConnect ==
    (arrivals > 0 \/ \E r \in Slots : Arrived(reqs[r])) => collections

\* C22: connectDBWithRetry makes at most retries (5) attempts and waits only after
\* a failed attempt that is not the last; it has returned only with dbConnected
\* true, set by the successful attempt itself, and the process has exited only
\* after the fifth failed attempt with dbConnected false; a wait is followed by
\* the next attempt; and start-up ends, connected or exited.
C22_RetryTerminates ==
    /\ [](/\ attempt <= retries
          /\ server = "waiting" => attempt < retries
          /\ server \in {"connected", "listening"} => dbConnected
          /\ server = "exited" => attempt = retries /\ ~dbConnected)
    /\ [][server' # server
             => \/ /\ server = "connecting" /\ server' = "connected"
                   /\ dbConnected' /\ attempt' = attempt
                \/ /\ server = "connecting" /\ server' = "waiting"
                   /\ attempt < retries /\ attempt' = attempt
                \/ /\ server = "connecting" /\ server' = "exited"
                   /\ attempt = retries
                \/ /\ server = "waiting" /\ server' = "connecting"
                   /\ attempt' = attempt + 1
                \/ server = "connected" /\ server' = "listening"]_vars
    /\ <>(server \in {"connected", "listening", "exited"})

\* The fifth attempt succeeds after four failures and four waits.
C22_Witness == server = "connected" /\ attempt = retries /\ dbConnected

\* C23: in part_000 a request that lists all orders or deletes an order is
\* answered 200 only for a requester whose record has role admin.
C23_OrdersAdminOnly ==
    \A r \in Slots :
        (reqs[r].route \in {"GET /orders", "DELETE /orders/:id"} /\ reqs[r].status = 200)
            => reqs[r].user.role = "admin"

\* C21: the payments collection holds at most one record per transactionId.
C21_OnePaymentPerTransaction ==
    \A i, j \in 1..Len(payments) :
        i # j => payments[i].transactionId # payments[j].transactionId

\* C24: in the step in which PATCH /payment-success answers success for a checkout
\* session, an order of the session's customer for the session's book, if there is
\* one, has paymentStatus paid.
C24_SuccessMeansPaid ==
    [][\A r \in Slots :
           (/\ reqs[r].route = "PATCH /payment-success"
            /\ reqs[r].pc # "done"
            /\ reqs'[r].pc = "done"
            /\ reqs'[r].status = 200)
               => \/ \A i \in 1..Len(orders') :
                         \/ orders'[i].bookId # retrieve(reqs[r].body.session_id).bookId
                         \/ orders'[i].customerEmail
                                # retrieve(reqs[r].body.session_id).customer_email
                  \/ \E i \in 1..Len(orders') :
                         /\ orders'[i].bookId = retrieve(reqs[r].body.session_id).bookId
                         /\ orders'[i].customerEmail
                                = retrieve(reqs[r].body.session_id).customer_email
                         /\ orders'[i].paymentStatus = "paid"]_vars

\* C25: a step sets the paymentStatus of an order to paid only as the updateOne of
\* a request whose checkout session has payment_status paid.
C25_PaidOnlyIfSessionPaid ==
    [][\A i \in 1..Len(orders) :
           (/\ Len(orders') = Len(orders)
            /\ orders[i].paymentStatus # "paid"
            /\ orders'[i].paymentStatus = "paid")
               => \E r \in Slots :
                      /\ reqs[r].pc = "orders.updateOne"
                      /\ reqs'[r].pc = "done"
                      /\ retrieve(reqs[r].body.session_id).payment_status = "paid"]_vars

\* C26: the reviews collection holds at most one review per (bookId, userEmail).
C26_OneReviewPerPair ==
    \A i, j \in 1..Len(reviews) : i # j => reviews[i] # reviews[j]

\* C27: in the step in which GET /reviews/can/:bookId/:email answers, canReview is
\* true exactly when POST /reviews for that bookId and email, run on the orders
\* and reviews of that step, passes its purchase test and its already-reviewed
\* test and so inserts.
C27_CanReviewIsPostReviews ==
    [][\A r \in Slots :
           (reqs[r].pc = "can.reviews.findOne" /\ reqs'[r].status = 200)
               => (reqs'[r].msg = "canReview: true"
                      <=> /\ postReviewsHasPurchased(reqs[r], orders).pc = "reviews.findOne"
                          /\ ~alreadyReviewed(reviews, reqs[r].body.bookId,
                                              reqs[r].body.email))]_vars

\* "a" has reviewed bk1, and a later question for that pair is answered false.
C27_Witness ==
    /\ reviews = <<[bookId |-> "bk1", userEmail |-> "a"]>>
    /\ \E r \in Slots :
           /\ reqs[r].route = "GET /reviews/can/:bookId/:email"
           /\ reqs[r].body.bookId = "bk1" /\ reqs[r].body.email = "a"
           /\ reqs[r].order
           /\ reqs[r].msg = "canReview: false"

====
